---- MODULE Spec2Model ----
(***************************************************************************)
(* A model of mm.c: a segregated-fit explicit-free-list allocator with     *)
(* header/footer boundary tags.  The heap is modelled word by word (4-byte *)
(* words at byte addresses), exactly as the macros of mm.c address it, so  *)
(* that header, footer, link and payload words can overwrite one another   *)
(* wherever the code lets them.                                            *)
(*                                                                         *)
(* An access outside the heap, a misaligned access or a walk round a       *)
(* cyclic free list is undefined behaviour / non-termination in C: the     *)
(* model records it as the program having stopped (crashed), after which   *)
(* no further call is made.                                                *)
(***************************************************************************)
EXTENDS Integers, Sequences, FiniteSets, TLC

\* ---- program constants (mm.c) -------------------------------------------
FREE == 0
ALLOCATED == 1
WORD == 4
OVERHEAD == 16
MAX_SEG == 13
NULL == 0

\* ---- the heap collaborator (memlib) --------------------------------------
\* lowest heap address; a multiple of 8
Base == 8
\* capacity of the heap in 4-byte words: mem_sbrk fails beyond it
MaxHeapWords == 30
\* number of calls (allocator calls and client stores) explored in one run
MaxOps == 5
HeapTop == Base + WORD * MaxHeapWords
Addrs == {Base + WORD * i : i \in 0 .. (MaxHeapWords - 1)}

\* ---- inputs ---------------------------------------------------------------
\* request sizes in bytes (whole words, so that the word-level heap is exact)
Sizes == {8, 16, 32}
\* what sbrk'ed memory holds before anything is written to it
Junk == {0, 7}
\* patterns a client stores in its payload: word i gets v + 4*i
DataVals == {48}

VARIABLES mem, first, last, brk, crashed, live, op, nops, phase
vars == <<mem, first, last, brk, crashed, live, op, nops, phase>>

\* the allocator's own state, threaded through the C functions
\* (ext lists the mem_sbrk calls of the call in progress)
Heap == [mem |-> mem, first |-> first, last |-> last, brk |-> brk,
         crashed |-> FALSE, ext |-> <<>>]

\* ---- memory access ------------------------------------------------------
InHeap(s, a) == a >= Base /\ a + WORD <= s.brk /\ a % WORD = 0

\* record that address a is dereferenced in state s
Need(s, a) == [s EXCEPT !.crashed = @ \/ ~InHeap(s, a)]

\* VALUE(p) as an rvalue
Rd(s, p) == IF InHeap(s, p) THEN s.mem[p] ELSE 0

\* VALUE(p) = v
Wr(s, p, v) == IF InHeap(s, p) THEN [s EXCEPT !.mem[p] = v]
               ELSE [s EXCEPT !.crashed = TRUE]

ALIGN(size) == ((size + 7) \div 8) * 8

\* (size)|(state) for state in {0,1}
PACK(size, state) == IF size % 2 = 1 THEN size ELSE size + state

UNPACK_SIZE(s, p) == Rd(s, p) - (Rd(s, p) % 8)
UNPACK_STATE(s, p) == Rd(s, p) % 2
REPACK_SIZE(s, p, size) == Wr(Need(s, p), p, PACK(size, UNPACK_STATE(s, p)))
REPACK_STATE(s, p, state) == Wr(Need(s, p), p, PACK(UNPACK_SIZE(s, p), state))

HEADER(bp) == bp - OVERHEAD + WORD
FOOTER(s, bp) == bp - OVERHEAD + UNPACK_SIZE(s, HEADER(bp))
NEXT_HEADER(s, bp) == bp - OVERHEAD + WORD + UNPACK_SIZE(s, HEADER(bp))
PREV_FOOTER(bp) == bp - OVERHEAD
NEXT_BLOCK(s, bp) == bp + UNPACK_SIZE(s, HEADER(bp))
PREV_BLOCK(s, bp) == bp - UNPACK_SIZE(s, PREV_FOOTER(bp))

\* addresses of the link words of a free block; a link is one word wide, as in
\* the block layout mm.c documents (prev in bytes 4..7, next in bytes 8..11)
NEXT_FREE(bp) == bp - WORD
PREV_FREE(bp) == bp - 2 * WORD

\* ---- list_find ----------------------------------------------------------
RECURSIVE list_find_loop(_, _, _)
list_find_loop(size, seg, limit) ==
  IF seg < MAX_SEG
  THEN IF size <= limit THEN seg ELSE list_find_loop(size, seg + 1, limit * 2)
  ELSE 0

list_find(size) == list_find_loop(size, 1, 2)

\* evaluate v once and hand it to F: the C statements run one after another,
\* each on the heap its predecessors left
Bind(v, F(_)) == CHOOSE r \in {F(x) : x \in {v}} : TRUE

\* ---- list_add -----------------------------------------------------------
list_add(s, bp) ==
  LET seg == list_find(UNPACK_SIZE(s, HEADER(bp)))
      tail == s.last[seg]
  IN Bind(Need(s, HEADER(bp)), LAMBDA s0 :
       IF tail = NULL
       THEN Bind(Wr([s0 EXCEPT !.first[seg] = bp, !.last[seg] = bp],
                    NEXT_FREE(bp), NULL), LAMBDA s1 :
              Wr(s1, PREV_FREE(bp), NULL))
       ELSE Bind(Wr(s0, NEXT_FREE(tail), bp), LAMBDA s1 :
            Bind(Wr(s1, PREV_FREE(bp), tail), LAMBDA s2 :
            Bind(Wr(s2, NEXT_FREE(bp), NULL), LAMBDA s3 :
              [s3 EXCEPT !.last[seg] = bp]))))

\* ---- list_remove --------------------------------------------------------
list_remove(s, bp) ==
  LET prev == Rd(s, PREV_FREE(bp))
      next == Rd(s, NEXT_FREE(bp))
      seg == list_find(UNPACK_SIZE(s, HEADER(bp)))
  IN Bind(Need(Need(Need(s, PREV_FREE(bp)), NEXT_FREE(bp)), HEADER(bp)),
          LAMBDA s0 :
       Bind(IF prev # NULL THEN Wr(s0, NEXT_FREE(prev), next)
            ELSE [s0 EXCEPT !.first[seg] = next], LAMBDA s1 :
         IF next # NULL THEN Wr(s1, PREV_FREE(next), prev)
         ELSE [s1 EXCEPT !.last[seg] = prev]))

\* ---- coalesce -----------------------------------------------------------
\* newsize = size(bp) + size(next); header and footer of bp are rewritten
merge_with_next(s, bp) ==
  LET newsize == UNPACK_SIZE(s, HEADER(bp)) + UNPACK_SIZE(s, NEXT_HEADER(s, bp))
  IN Bind(Need(Need(s, HEADER(bp)), NEXT_HEADER(s, bp)), LAMBDA s2 :
     Bind(REPACK_SIZE(s2, HEADER(bp), newsize), LAMBDA s3 :
       REPACK_SIZE(s3, FOOTER(s3, bp), newsize)))

\* merge bp with the block to its left
coalesce_left(s, bp) ==
  IF UNPACK_STATE(s, PREV_FOOTER(bp)) = FREE
  THEN LET b == PREV_BLOCK(s, bp)
       IN Bind(list_remove(Need(s, PREV_FOOTER(bp)), b), LAMBDA s1 :
            [s |-> merge_with_next(s1, b), bp |-> b])
  ELSE [s |-> Need(s, PREV_FOOTER(bp)), bp |-> bp]

\* (a coalesce that forgets the right neighbour)
coalesce_right_skipped(s, bp) ==
  Need(Need(s, HEADER(bp)), NEXT_HEADER(s, bp))

\* merge bp with the block to its right
coalesce_right(s, bp) ==
  Bind(Need(Need(s, HEADER(bp)), NEXT_HEADER(s, bp)), LAMBDA s0 :
    IF UNPACK_STATE(s, NEXT_HEADER(s, bp)) = FREE
    THEN Bind(list_remove(s0, NEXT_BLOCK(s, bp)), LAMBDA s1 :
           merge_with_next(s1, bp))
    ELSE s0)

coalesce(s, bp) ==
  Bind(coalesce_left(s, bp), LAMBDA l :
  Bind(coalesce_right(l.s, l.bp), LAMBDA r :
    [s |-> list_add(r, l.bp), bp |-> l.bp]))

\* ---- split --------------------------------------------------------------
split(s, bp, size) ==
  LET oldsize == UNPACK_SIZE(s, HEADER(bp))
  IN IF oldsize < size + OVERHEAD
     THEN Need(s, HEADER(bp))
     ELSE
       Bind(Wr(s, HEADER(bp), PACK(size, ALLOCATED)), LAMBDA s1 :
       Bind(Wr(s1, FOOTER(s1, bp), PACK(size, ALLOCATED)), LAMBDA s2 :
       Bind(Wr(s2, NEXT_HEADER(s2, bp), PACK(oldsize - size, FREE)), LAMBDA s3 :
       Bind(Wr(Need(s3, HEADER(NEXT_BLOCK(s3, bp))),
               FOOTER(s3, NEXT_BLOCK(s3, bp)),
               PACK(oldsize - size, FREE)), LAMBDA s4 :
       Bind(coalesce(s4, NEXT_BLOCK(s4, bp)), LAMBDA c : c.s)))))

\* ---- find_block ---------------------------------------------------------
\* walk one list from bp; bad when the walk reads outside the heap or never ends
RECURSIVE find_in_list(_, _, _, _)
find_in_list(s, bp, size, seen) ==
  IF bp = NULL THEN [bp |-> NULL, bad |-> FALSE]
  ELSE IF bp \in seen \/ ~InHeap(s, HEADER(bp)) THEN [bp |-> NULL, bad |-> TRUE]
  ELSE IF UNPACK_SIZE(s, HEADER(bp)) >= size THEN [bp |-> bp, bad |-> FALSE]
  ELSE IF ~InHeap(s, NEXT_FREE(bp)) THEN [bp |-> NULL, bad |-> TRUE]
  ELSE Bind(Rd(s, NEXT_FREE(bp)), LAMBDA nx :
         Bind(seen \cup {bp}, LAMBDA sn : find_in_list(s, nx, size, sn)))

RECURSIVE find_from_seg(_, _, _)
find_from_seg(s, seg, size) ==
  IF seg < MAX_SEG
  THEN Bind(find_in_list(s, s.first[seg], size, {}), LAMBDA r :
         IF r.bad \/ r.bp # NULL THEN r ELSE find_from_seg(s, seg + 1, size))
  ELSE find_in_list(s, s.first[0], size, {})

find_block(s, size) ==
  LET seg == list_find(size)
  IN IF seg > 0 THEN find_from_seg(s, seg, size)
     ELSE find_in_list(s, s.first[0], size, {})

\* ---- mem_sbrk (memlib) --------------------------------------------------
mem_sbrk(s, incr) ==
  IF s.brk + incr > HeapTop
  THEN [s |-> [s EXCEPT !.ext = Append(@, [incr |-> incr, ok |-> FALSE])],
        p |-> -1]
  ELSE [s |-> [s EXCEPT !.brk = @ + incr,
                        !.ext = Append(@, [incr |-> incr, ok |-> TRUE])],
        p |-> s.brk]

\* ---- new_block ----------------------------------------------------------
new_block(s, size) ==
  Bind(mem_sbrk(s, size), LAMBDA sb :
    IF sb.p = -1
    THEN [s |-> sb.s, bp |-> NULL]
    ELSE LET bp == sb.p + OVERHEAD - 2 * WORD
         IN Bind(Wr(sb.s, HEADER(bp), PACK(size, FREE)), LAMBDA s1 :
            Bind(Wr(s1, FOOTER(s1, bp), PACK(size, FREE)), LAMBDA s2 :
            Bind(Wr(s2, NEXT_HEADER(s2, bp), PACK(0, ALLOCATED)), LAMBDA s3 :
              coalesce(s3, bp)))))

\* ---- mm_init ------------------------------------------------------------
mm_init(s) ==
  Bind(mem_sbrk(s, OVERHEAD + 2 * WORD), LAMBDA sb :
    LET p == sb.p + OVERHEAD
    IN Bind(Wr(sb.s, HEADER(p), PACK(OVERHEAD, ALLOCATED)), LAMBDA s1 :
       Bind(Wr(s1, FOOTER(s1, p), PACK(OVERHEAD, ALLOCATED)), LAMBDA s2 :
       Bind(Wr(s2, HEADER(NEXT_BLOCK(s2, p)), PACK(0, ALLOCATED)), LAMBDA s3 :
         [s3 EXCEPT !.first = [seg \in 0 .. (MAX_SEG - 1) |-> NULL],
                    !.last = [seg \in 0 .. (MAX_SEG - 1) |-> NULL]]))))

\* ---- mm_malloc ----------------------------------------------------------
\* "mark as allocated" and split: the tail of mm_malloc, on the block found
place(s, bp, bsize) ==
  Bind(list_remove(s, bp), LAMBDA s1 :
  Bind(REPACK_STATE(s1, HEADER(bp), ALLOCATED), LAMBDA s2 :
  Bind(REPACK_STATE(s2, FOOTER(s2, bp), ALLOCATED), LAMBDA s3 :
    [s |-> split(s3, bp, bsize), bp |-> bp])))

\* (an mm_malloc without the empty case)
mm_malloc_serves_zero(s, size) ==
  LET bsize == ALIGN(size + OVERHEAD)
  IN Bind(find_block(s, bsize), LAMBDA f :
       IF f.bad THEN [s |-> [s EXCEPT !.crashed = TRUE], bp |-> NULL]
       ELSE IF f.bp = NULL
       THEN Bind(new_block(s, bsize), LAMBDA g :
              IF g.bp = NULL THEN g ELSE place(g.s, g.bp, bsize))
       ELSE place(s, f.bp, bsize))

mm_malloc(s, size) ==
  IF size = 0 THEN [s |-> s, bp |-> NULL]
  ELSE
    LET bsize == ALIGN(size + OVERHEAD)
    IN Bind(find_block(s, bsize), LAMBDA f :
         IF f.bad THEN [s |-> [s EXCEPT !.crashed = TRUE], bp |-> NULL]
         ELSE IF f.bp = NULL
         THEN Bind(new_block(s, bsize), LAMBDA g :
                IF g.bp = NULL THEN g ELSE place(g.s, g.bp, bsize))
         ELSE place(s, f.bp, bsize))

\* ---- mm_free ------------------------------------------------------------
mm_free(s, bp) ==
  Bind(REPACK_STATE(s, HEADER(bp), FREE), LAMBDA s1 :
  Bind(REPACK_STATE(s1, FOOTER(s1, bp), FREE), LAMBDA s2 :
  Bind(coalesce(s2, bp), LAMBDA c : c.s)))

\* ---- memmove / memcpy ---------------------------------------------------
\* copy len bytes from src to dst; every source word is read before any write
memmove(s, dst, src, len) ==
  LET idx == 0 .. ((len \div WORD) - 1)
  IN IF len < 0 \/ \E i \in idx : ~InHeap(s, src + WORD * i)
                                  \/ ~InHeap(s, dst + WORD * i)
     THEN [s EXCEPT !.crashed = TRUE]
     ELSE [s EXCEPT !.mem = [a \in Addrs |->
             IF a >= dst /\ a < dst + len THEN s.mem[a - dst + src]
             ELSE s.mem[a]]]

\* ---- mm_realloc ---------------------------------------------------------
\* grow in place by absorbing the next free block and then splitting
grow_right(s, bp, cosize, newsize) ==
  Bind(list_remove(s, NEXT_BLOCK(s, bp)), LAMBDA s1 :
  Bind(Wr(s1, HEADER(bp), PACK(cosize, ALLOCATED)), LAMBDA s2 :
  Bind(Wr(s2, FOOTER(s2, bp), PACK(cosize, ALLOCATED)), LAMBDA s3 :
    [s |-> split(s3, bp, newsize), bp |-> bp])))

\* (a grow_left that hands back the old pointer)
grow_left_returns_old_pointer(s, bp, cosize, newsize, oldsize) ==
  LET bp2 == PREV_BLOCK(s, bp)
  IN Bind(list_remove(s, bp2), LAMBDA s1 :
     Bind(Wr(s1, HEADER(bp2), PACK(cosize, ALLOCATED)), LAMBDA s2 :
     Bind(Wr(s2, FOOTER(s2, bp2), PACK(cosize, ALLOCATED)), LAMBDA s3 :
     Bind(memmove(s3, bp2, bp, oldsize - OVERHEAD), LAMBDA s4 :
       [s |-> split(s4, bp2, newsize), bp |-> bp]))))

\* absorb the previous block, move the data backwards, split
grow_left(s, bp, cosize, newsize, oldsize) ==
  LET bp2 == PREV_BLOCK(s, bp)
  IN Bind(list_remove(s, bp2), LAMBDA s1 :
     Bind(Wr(s1, HEADER(bp2), PACK(cosize, ALLOCATED)), LAMBDA s2 :
     Bind(Wr(s2, FOOTER(s2, bp2), PACK(cosize, ALLOCATED)), LAMBDA s3 :
     Bind(memmove(s3, bp2, bp, oldsize - OVERHEAD), LAMBDA s4 :
       [s |-> split(s4, bp2, newsize), bp |-> bp2]))))

\* (a relocate that frees the old block although no new one was obtained)
relocate_frees_on_failure(s, bp, size, oldsize) ==
  Bind(mm_malloc(s, size), LAMBDA m :
    IF m.bp # NULL
    THEN Bind(memmove(m.s, m.bp, bp, oldsize - OVERHEAD), LAMBDA s1 :
           [s |-> mm_free(s1, bp), bp |-> m.bp])
    ELSE [s |-> mm_free(m.s, bp), bp |-> NULL])

\* allocate another block, copy the data over
relocate(s, bp, size, oldsize) ==
  Bind(mm_malloc(s, size), LAMBDA m :
    IF m.bp # NULL
    THEN Bind(memmove(m.s, m.bp, bp, oldsize - OVERHEAD), LAMBDA s1 :
           [s |-> mm_free(s1, bp), bp |-> m.bp])
    ELSE m)

\* (an mm_realloc without its two special cases)
mm_realloc_no_special_cases(s, bp, size) ==
  LET newsize == ALIGN(size + OVERHEAD)
      oldsize == UNPACK_SIZE(s, HEADER(bp))
      cosizeR == oldsize + UNPACK_SIZE(s, NEXT_HEADER(s, bp))
      cosizeL == oldsize + UNPACK_SIZE(s, PREV_FOOTER(bp))
  IN Bind(Need(s, HEADER(bp)), LAMBDA s0 :
       IF newsize + OVERHEAD < oldsize
       THEN [s |-> split(s0, bp, size), bp |-> bp]
       ELSE IF newsize < oldsize
       THEN [s |-> s0, bp |-> bp]
       ELSE
         Bind(Need(s0, NEXT_HEADER(s, bp)), LAMBDA sn :
           IF UNPACK_STATE(s, NEXT_HEADER(s, bp)) = FREE /\ cosizeR >= newsize
           THEN grow_right(sn, bp, cosizeR, newsize)
           ELSE
             Bind(Need(sn, PREV_FOOTER(bp)), LAMBDA sp :
               IF UNPACK_STATE(s, PREV_FOOTER(bp)) = FREE
                  /\ cosizeL >= newsize
               THEN grow_left(sp, bp, cosizeL, newsize, oldsize)
               ELSE relocate(sp, bp, size, oldsize))))

mm_realloc(s, bp, size) ==
  IF bp = NULL THEN mm_malloc(s, size)
  ELSE IF size = 0 THEN [s |-> mm_free(s, bp), bp |-> NULL]
  ELSE
    LET newsize == ALIGN(size + OVERHEAD)
        oldsize == UNPACK_SIZE(s, HEADER(bp))
        cosizeR == oldsize + UNPACK_SIZE(s, NEXT_HEADER(s, bp))
        cosizeL == oldsize + UNPACK_SIZE(s, PREV_FOOTER(bp))
    IN Bind(Need(s, HEADER(bp)), LAMBDA s0 :
         IF newsize + OVERHEAD < oldsize
         THEN [s |-> split(s0, bp, size), bp |-> bp]
         ELSE IF newsize < oldsize
         THEN [s |-> s0, bp |-> bp]
         ELSE
           Bind(Need(s0, NEXT_HEADER(s, bp)), LAMBDA sn :
             IF UNPACK_STATE(s, NEXT_HEADER(s, bp)) = FREE /\ cosizeR >= newsize
             THEN grow_right(sn, bp, cosizeR, newsize)
             ELSE
               Bind(Need(sn, PREV_FOOTER(bp)), LAMBDA sp :
                 IF UNPACK_STATE(s, PREV_FOOTER(bp)) = FREE
                    /\ cosizeL >= newsize
                 THEN grow_left(sp, bp, cosizeL, newsize, oldsize)
                 ELSE relocate(sp, bp, size, oldsize))))

\* ---- the client ---------------------------------------------------------
\* the live pointers and the size each was last requested with
Put(l, p, n) == [q \in (DOMAIN l) \cup {p} |-> IF q = p THEN n ELSE l[q]]
Drop(l, p) == [q \in (DOMAIN l) \ {p} |-> l[q]]

\* the client stores a pattern in the n bytes it asked for: word i gets v + 4*i
store(s, p, v, nwords) ==
  IF \E i \in 0 .. (nwords - 1) : ~InHeap(s, p + WORD * i)
  THEN [s EXCEPT !.crashed = TRUE]
  ELSE [s EXCEPT !.mem = [a \in Addrs |->
          IF a >= p /\ a < p + WORD * nwords THEN v + (a - p) ELSE s.mem[a]]]

\* the history of calls so far: only successful allocations ("allocs"), these
\* followed only by frees ("frees"), or anything else ("mixed"); the client's
\* stores into its own payload do not count
NextPhase(call) ==
  IF call.name = "write" THEN phase
  ELSE IF call.name = "malloc" /\ call.ret # NULL /\ phase = "allocs"
  THEN "allocs"
  ELSE IF call.name = "free" /\ phase \in {"allocs", "frees"} THEN "frees"
  ELSE "mixed"

Done(s, call, l) ==
  IF s.crashed
  THEN /\ crashed' = TRUE
       /\ nops' = nops + 1
       /\ UNCHANGED <<mem, first, last, brk, live, op, phase>>
  ELSE /\ nops' = nops + 1
       /\ phase' = NextPhase(call)
       /\ mem' = s.mem
       /\ first' = s.first
       /\ last' = s.last
       /\ brk' = s.brk
       /\ live' = l
       /\ op' = call
       /\ UNCHANGED crashed

Init ==
  \E j \in Junk :
    \E s \in {mm_init([mem |-> [a \in Addrs |-> j],
                       first |-> [seg \in 0 .. (MAX_SEG - 1) |-> NULL],
                       last |-> [seg \in 0 .. (MAX_SEG - 1) |-> NULL],
                       brk |-> Base, crashed |-> FALSE, ext |-> <<>>])} :
       /\ mem = s.mem
       /\ first = s.first
       /\ last = s.last
       /\ brk = s.brk
       /\ crashed = FALSE
       /\ nops = 0
       /\ live = [q \in {} |-> 0]
       /\ phase = "allocs"
       /\ op = [name |-> "init", p |-> NULL, n |-> 0, ret |-> 0, ext |-> <<>>]

Malloc ==
  /\ ~crashed /\ nops < MaxOps
  /\ \E n \in Sizes \cup {0} :
       \E h \in {Heap} : \E r \in {mm_malloc(h, n)} :
         Done(r.s, [name |-> "malloc", p |-> NULL, n |-> n, ret |-> r.bp,
                   ext |-> r.s.ext],
              IF r.bp = NULL THEN live ELSE Put(live, r.bp, n))

Free ==
  /\ ~crashed /\ nops < MaxOps
  /\ \E p \in DOMAIN live :
       \E h \in {Heap} : \E s \in {mm_free(h, p)} :
         Done(s, [name |-> "free", p |-> p, n |-> 0, ret |-> NULL,
                  ext |-> s.ext],
              Drop(live, p))

Realloc ==
  /\ ~crashed /\ nops < MaxOps
  /\ \E p \in (DOMAIN live) \cup {NULL}, n \in Sizes \cup {0} :
       \E h \in {Heap} : \E r \in {mm_realloc(h, p, n)} :
         Done(r.s, [name |-> "realloc", p |-> p, n |-> n, ret |-> r.bp,
                   ext |-> r.s.ext],
              IF p = NULL
              THEN (IF r.bp = NULL THEN live ELSE Put(live, r.bp, n))
              ELSE IF n = 0 THEN Drop(live, p)
              ELSE IF r.bp = NULL THEN live
              ELSE Put(Drop(live, p), r.bp, n))

ClientWrite ==
  /\ ~crashed /\ nops < MaxOps
  /\ \E p \in DOMAIN live, v \in DataVals :
       \E h \in {Heap} : \E s \in {store(h, p, v, live[p] \div WORD)} :
         Done(s, [name |-> "write", p |-> p, n |-> v, ret |-> NULL,
                  ext |-> s.ext], live)

Next == Malloc \/ Free \/ Realloc \/ ClientWrite

Spec == Init /\ [][Next]_vars

\* ---- the heap as a walk sees it ------------------------------------------
\* payload address of the left sentinel (p in mm_init)
LeftSentinel == Base + OVERHEAD

\* walk from bp by adding each block's header size; ok when the walk steps only
\* over blocks of non-zero size inside the heap and lands on the terminator,
\* the word (0, ALLOCATED) that ends the heap
RECURSIVE HeapWalk(_, _)
HeapWalk(bp, fuel) ==
  IF fuel = 0 \/ ~InHeap(Heap, HEADER(bp))
  THEN [blocks |-> <<>>, ok |-> FALSE]
  ELSE IF HEADER(bp) = brk - WORD
  THEN [blocks |-> <<>>, ok |-> mem[HEADER(bp)] = PACK(0, ALLOCATED)]
  ELSE IF UNPACK_SIZE(Heap, HEADER(bp)) = 0
  THEN [blocks |-> <<bp>>, ok |-> FALSE]
  ELSE LET r == HeapWalk(NEXT_BLOCK(Heap, bp), fuel - 1)
       IN [blocks |-> <<bp>> \o r.blocks, ok |-> r.ok]

Walked == HeapWalk(LeftSentinel, MaxHeapWords + 1)
\* every block the walk visits, the left sentinel first
Blocks == Walked.blocks
\* the blocks between the sentinels
RealBlocks == {Blocks[i] : i \in 2 .. Len(Blocks)}
FreeBlocks == {b \in RealBlocks : UNPACK_STATE(Heap, HEADER(b)) = FREE}

\* the nodes of a free list, from bp along the next links
RECURSIVE ListFrom(_, _)
ListFrom(bp, fuel) ==
  IF bp = NULL \/ fuel = 0 \/ ~InHeap(Heap, NEXT_FREE(bp)) THEN <<>>
  ELSE <<bp>> \o ListFrom(mem[NEXT_FREE(bp)], fuel - 1)

List(seg) == ListFrom(first[seg], MaxHeapWords + 1)
Segs == 0 .. (MAX_SEG - 1)
ListNodes == UNION {{List(seg)[i] : i \in 1 .. Len(List(seg))} : seg \in Segs}

RECURSIVE SumLen(_)
SumLen(seg) == IF seg = MAX_SEG THEN 0 ELSE Len(List(seg)) + SumLen(seg + 1)

RECURSIVE Pow2(_)
Pow2(i) == IF i = 0 THEN 1 ELSE 2 * Pow2(i - 1)

\* the size range of bucket seg
InBucket(seg, size) ==
  IF seg = 0 THEN size > Pow2(MAX_SEG - 1)
  ELSE Pow2(seg - 1) < size /\ size <= Pow2(seg)

Min(a, b) == IF a < b THEN a ELSE b

\* the step just taken was a call that returned
Returned == nops' = nops + 1 /\ ~crashed'

\* ---- claims ---------------------------------------------------------------

\* C1: every live pointer last returned for a request of n bytes names an
\* ALLOCATED block whose payload capacity, size(header(p)) - 16, is at least n.
C1_LiveBlockHoldsRequest ==
  \A p \in DOMAIN live :
    /\ InHeap(Heap, HEADER(p))
    /\ UNPACK_STATE(Heap, HEADER(p)) = ALLOCATED
    /\ UNPACK_SIZE(Heap, HEADER(p)) - OVERHEAD >= live[p]

\* C2: when reallocate(p, n), n > 0, returns a non-null q, the first min(c, n)
\* payload bytes at q are the first min(c, n) payload bytes that were at p,
\* c being the old payload capacity (block size - 16).
C2_ReallocKeepsPayload ==
  [][(Returned /\ op'.name = "realloc" /\ op'.p # NULL /\ op'.n > 0
        /\ op'.ret # NULL)
     => \A i \in 0 .. ((Min(UNPACK_SIZE(Heap, HEADER(op'.p)) - OVERHEAD, op'.n)
                        \div WORD) - 1) :
          mem'[op'.ret + WORD * i] = mem[op'.p + WORD * i]]_vars

\* C3: the walk from the left sentinel, adding each block's header size, lands
\* exactly on the zero-sized terminator: the heap is tiled by its blocks.
C3_HeapTiled == Walked.ok

\* C4: every block of the heap has a size that is a multiple of 8 and at
\* least 16, its header word carrying nothing but that size and the state bit.
C4_BlockSizes ==
  \A i \in 1 .. Len(Blocks) :
    /\ mem[HEADER(Blocks[i])] % 8 \in {FREE, ALLOCATED}
    /\ UNPACK_SIZE(Heap, HEADER(Blocks[i])) >= OVERHEAD

\* C5: for every block of the heap the header word and the footer word, at
\* block base + size - 4, are the same.
C5_HeaderIsFooter ==
  \A i \in 1 .. Len(Blocks) :
    /\ InHeap(Heap, FOOTER(Heap, Blocks[i]))
    /\ mem[HEADER(Blocks[i])] = mem[FOOTER(Heap, Blocks[i])]

\* C6: no two physically adjacent blocks between the sentinels are both FREE.
C6_NoAdjacentFree ==
  \A i \in 2 .. (Len(Blocks) - 1) :
    ~(/\ UNPACK_STATE(Heap, HEADER(Blocks[i])) = FREE
      /\ UNPACK_STATE(Heap, HEADER(Blocks[i + 1])) = FREE)

\* C7: the blocks a heap walk finds FREE are exactly the blocks reachable from
\* first[0..12] along the next links, each in one list and once.
C7_FreeIffListed ==
  /\ ListNodes = FreeBlocks
  /\ SumLen(0) = Cardinality(FreeBlocks)

\* C8: every node of list i has a size in bucket i's range, and list i is
\* consistently doubly linked between first[i] and last[i].
C8_ListsWellFormed ==
  \A seg \in Segs :
    LET l == List(seg)
    IN /\ (first[seg] = NULL) <=> (last[seg] = NULL)
       /\ \A i \in 1 .. Len(l) :
            /\ InHeap(Heap, HEADER(l[i]))
            /\ InBucket(seg, UNPACK_SIZE(Heap, HEADER(l[i])))
            /\ list_find(UNPACK_SIZE(Heap, HEADER(l[i]))) = seg
            /\ mem[PREV_FREE(l[i])] = (IF i = 1 THEN NULL ELSE l[i - 1])
       /\ first[seg] # NULL =>
            /\ Len(l) > 0
            /\ last[seg] = l[Len(l)]
            /\ mem[NEXT_FREE(last[seg])] = NULL

\* C9: every non-null pointer that allocate or reallocate returns is a
\* multiple of 8 (the heap base being one).
C9_ReturnedAligned ==
  (op.name \in {"malloc", "realloc"} /\ op.ret # NULL) => op.ret % 8 = 0

\* C10: reallocate(p, n) with n the current payload size of the live pointer p
\* (block size - 16) returns p.
C10_ReallocSameSize ==
  [][(Returned /\ op'.name = "realloc" /\ op'.p # NULL
        /\ op'.n = UNPACK_SIZE(Heap, HEADER(op'.p)) - OVERHEAD)
     => op'.ret = op'.p]_vars

\* C11: from a fresh heap, after successful allocations followed by the free of
\* every returned pointer, the heap holds exactly one block between the
\* sentinels: it is FREE and its size is every byte the heap was extended by
\* since init.
C11_AllFreedOneBlock ==
  (phase = "frees" /\ DOMAIN live = {}) =>
    /\ Walked.ok
    /\ Len(Blocks) = 2
    /\ Blocks[2] = LeftSentinel + OVERHEAD
    /\ UNPACK_STATE(Heap, HEADER(Blocks[2])) = FREE
    /\ UNPACK_SIZE(Heap, HEADER(Blocks[2])) = brk - (Base + OVERHEAD + 2 * WORD)
    /\ ListNodes = {Blocks[2]}

\* at least two blocks were allocated and all of them freed
C11_Witness ==
  /\ phase = "frees" /\ DOMAIN live = {} /\ ~crashed
  /\ brk >= Base + OVERHEAD + 2 * WORD + 2 * ALIGN(8 + OVERHEAD)
  /\ nops >= 4

\* the call just made asked mem_sbrk for more heap and was refused
ExtendFailed(call) ==
  /\ call.name \in {"malloc", "realloc"}
  /\ \E i \in 1 .. Len(call.ext) : ~call.ext[i].ok

\* C12: when heap_extend fails during allocate(n) or during the relocate path
\* of reallocate(p, n), the call returns null and nothing has changed: every
\* heap word, every first[i] and last[i], the heap end and the live pointers
\* (p among them) are as before the call.
C12_ExtendFailureChangesNothing ==
  [][(Returned /\ ExtendFailed(op'))
     => /\ op'.ret = NULL
        /\ mem' = mem /\ first' = first /\ last' = last /\ brk' = brk
        /\ live' = live
        /\ (op'.p # NULL => op'.p \in DOMAIN live')]_vars

\* a reallocate of a live pointer has just failed to extend the heap
C12_Witness ==
  /\ ~crashed /\ op.name = "realloc" /\ op.p # NULL /\ op.n > 0
  /\ ExtendFailed(op) /\ op.ret = NULL /\ op.p \in DOMAIN live

\* the allocator state after the step is the heap t
StateIs(t) ==
  /\ ~t.crashed
  /\ mem' = t.mem /\ first' = t.first /\ last' = t.last /\ brk' = t.brk

\* C13: reallocate(null, n) returns the pointer and leaves the heap and the
\* free lists that allocate(n) would from the same state; reallocate(p, 0) for
\* a live p returns null and leaves the state that free(p) would.
C13_ReallocSpecialCases ==
  [][(Returned /\ op'.name = "realloc" /\ (op'.p = NULL \/ op'.n = 0))
     => IF op'.p = NULL
        THEN \E h \in {Heap} : \E r \in {mm_malloc(h, op'.n)} :
               /\ StateIs(r.s)
               /\ op'.ret = r.bp
               /\ live' = (IF r.bp = NULL THEN live ELSE Put(live, r.bp, op'.n))
        ELSE \E h \in {Heap} : \E s \in {mm_free(h, op'.p)} :
               /\ StateIs(s)
               /\ op'.ret = NULL
               /\ op'.p \notin DOMAIN live']_vars

\* reallocate(p, 0) has just freed a live pointer while another stays live
C13_Witness ==
  /\ ~crashed /\ op.name = "realloc" /\ op.p # NULL /\ op.n = 0
  /\ op.ret = NULL /\ DOMAIN live # {} /\ FreeBlocks # {}

\* reallocate(null, n) has just allocated a block
C13_WitnessNull ==
  /\ ~crashed /\ op.name = "realloc" /\ op.p = NULL /\ op.n > 0
  /\ op.ret # NULL /\ op.ret \in DOMAIN live

\* C14: allocate(0) returns null, does not call heap_extend and leaves every
\* heap word and every free list as it was.
C14_MallocZero ==
  [][(Returned /\ op'.name = "malloc" /\ op'.n = 0)
     => /\ op'.ret = NULL
        /\ op'.ext = <<>>
        /\ mem' = mem /\ first' = first /\ last' = last /\ brk' = brk
        /\ live' = live]_vars

\* allocate(0) has just been called on a heap with a live and a FREE block
C14_Witness ==
  /\ ~crashed /\ op.name = "malloc" /\ op.n = 0
  /\ DOMAIN live # {} /\ FreeBlocks # {}

\* C15: on the shrink-split path of reallocate(p, size), where newsize + 16 <
\* oldsize for newsize = align_up(size + 16, 8), the call returns p, p's block
\* stays ALLOCATED with size exactly newsize, and a FREE block of at least
\* oldsize - newsize bytes starts right after it.
C15_ShrinkSplitAtNewsize ==
  [][(/\ Returned /\ op'.name = "realloc" /\ op'.p # NULL /\ op'.n > 0
      /\ ALIGN(op'.n + OVERHEAD) + OVERHEAD < UNPACK_SIZE(Heap, HEADER(op'.p)))
     => LET newsize == ALIGN(op'.n + OVERHEAD)
            oldsize == UNPACK_SIZE(Heap, HEADER(op'.p))
            rest == mem'[HEADER(op'.p) + newsize]
        IN /\ op'.ret = op'.p
           /\ mem'[HEADER(op'.p)] = PACK(newsize, ALLOCATED)
           /\ rest % 2 = FREE
           /\ rest - (rest % 8) >= oldsize - newsize]_vars

\* C16: allocate(n), n > 0, calls heap_extend if and only if no FREE block of
\* the heap has size >= bsize = align_up(n + 16, 8), and then it asks for
\* exactly bsize bytes.
C16_ExtendOnlyWhenNeeded ==
  [][(Returned /\ op'.name = "malloc" /\ op'.n > 0)
     => LET bsize == ALIGN(op'.n + OVERHEAD)
        IN /\ (op'.ext # <<>>) <=>
                ~\E b \in FreeBlocks : UNPACK_SIZE(Heap, HEADER(b)) >= bsize
           /\ op'.ext # <<>> =>
                Len(op'.ext) = 1 /\ op'.ext[1].incr = bsize]_vars

\* the buckets in the order the search visits them for a block of bsize bytes
SearchOrder(bsize) ==
  LET seg == list_find(bsize)
  IN IF seg > 0
     THEN [i \in 1 .. (MAX_SEG - seg + 1) |->
             IF i <= MAX_SEG - seg THEN seg + i - 1 ELSE 0]
     ELSE <<0>>

\* the nodes of those buckets, each bucket head to tail
RECURSIVE Candidates(_, _)
Candidates(order, i) ==
  IF i > Len(order) THEN <<>>
  ELSE List(order[i]) \o Candidates(order, i + 1)

IsFit(b, bsize) == UNPACK_SIZE(Heap, HEADER(b)) >= bsize

FirstFit(bsize) ==
  LET c == Candidates(SearchOrder(bsize), 1)
      fits == {i \in 1 .. Len(c) : IsFit(c[i], bsize)}
  IN IF fits = {} THEN NULL
     ELSE c[CHOOSE i \in fits : \A j \in fits : i <= j]

\* the nodes of a list other than b, in list order
Others(l, b) == SelectSeq(l, LAMBDA x : x # b)

\* C17: when some FREE block is large enough, allocate(n) returns the first
\* sufficient block in the search order: buckets bucket_of(bsize) .. 12 and then
\* bucket 0, each head to tail; and the lists are in insertion order: a free
\* puts the block it leaves at the tail of a list and keeps the order of the
\* nodes that stay.
C17_FirstFitInSearchOrder ==
  [][/\ (/\ Returned /\ op'.name = "malloc" /\ op'.n > 0
         /\ \E b \in FreeBlocks : IsFit(b, ALIGN(op'.n + OVERHEAD)))
        => op'.ret = FirstFit(ALIGN(op'.n + OVERHEAD))
     /\ (Returned /\ op'.name = "free")
        => \E seg \in Segs :
             /\ last'[seg] # NULL
             /\ last'[seg] <= op'.p
             /\ op'.p < last'[seg] + mem'[HEADER(last'[seg])]
             /\ \A g \in Segs :
                  Others(List(g)', last'[seg])
                    = SelectSeq(List(g), LAMBDA x : x \in ListNodes' \ {last'[seg]})]_vars

\* the right (left) neighbour of bp is FREE and, joined with bp, holds newsize
RightSuffices(bp, newsize) ==
  /\ UNPACK_STATE(Heap, NEXT_HEADER(Heap, bp)) = FREE
  /\ UNPACK_SIZE(Heap, HEADER(bp)) + UNPACK_SIZE(Heap, NEXT_HEADER(Heap, bp))
       >= newsize

LeftSuffices(bp, newsize) ==
  /\ UNPACK_STATE(Heap, PREV_FOOTER(bp)) = FREE
  /\ UNPACK_SIZE(Heap, HEADER(bp)) + UNPACK_SIZE(Heap, PREV_FOOTER(bp))
       >= newsize

\* C18: a growing reallocate(p, size) whose right neighbour is FREE and large
\* enough returns p; otherwise, if the left neighbour is FREE and large enough,
\* it returns the left neighbour's payload address; in both cases the heap is
\* not extended and the block returned is ALLOCATED with size >= newsize.
C18_GrowIntoFreeNeighbour ==
  [][(/\ Returned /\ op'.name = "realloc" /\ op'.p # NULL /\ op'.n > 0
      /\ ALIGN(op'.n + OVERHEAD) > UNPACK_SIZE(Heap, HEADER(op'.p)))
     => LET newsize == ALIGN(op'.n + OVERHEAD)
            right == RightSuffices(op'.p, newsize)
            left == LeftSuffices(op'.p, newsize)
        IN /\ right => op'.ret = op'.p
           /\ (~right /\ left) => op'.ret = PREV_BLOCK(Heap, op'.p)
           /\ (right \/ left)
              => /\ op'.ext = <<>> /\ brk' = brk
                 /\ mem'[HEADER(op'.ret)] % 2 = ALLOCATED
                 /\ mem'[HEADER(op'.ret)] - 1 >= newsize]_vars

\* a reallocate has just grown a block into its left neighbour: the pointer
\* returned is lower than p and its block reaches over p
C18_Witness ==
  /\ ~crashed /\ op.name = "realloc" /\ op.p # NULL /\ op.n > 0
  /\ op.ext = <<>> /\ op.ret # NULL /\ op.ret < op.p
  /\ op.p < op.ret + UNPACK_SIZE(Heap, HEADER(op.ret))
  /\ UNPACK_STATE(Heap, HEADER(op.ret)) = ALLOCATED
  /\ UNPACK_SIZE(Heap, HEADER(op.ret)) >= ALIGN(op.n + OVERHEAD)

\* the word at address a, if there is one, is the same after the step
SameWord(a) == a \in Addrs => mem'[a] = mem[a]

\* C19: a call on p (or an allocate) leaves every other live block untouched:
\* each live q # p stays live at its address with the same header word, footer
\* word and payload; the sentinel's header and footer words stay, and the
\* terminator stays the last word of the heap, moving only when the heap is
\* extended.
C19_OtherBlocksUntouched ==
  [][(Returned /\ op'.name \in {"malloc", "free", "realloc"})
     => /\ \A q \in DOMAIN live \ {op'.p} :
             /\ q \in DOMAIN live' /\ live'[q] = live[q]
             /\ SameWord(HEADER(q))
             /\ SameWord(FOOTER(Heap, q))
             /\ \A i \in 0 .. ((live[q] \div WORD) - 1) : SameWord(q + WORD * i)
        /\ SameWord(HEADER(LeftSentinel))
        /\ SameWord(FOOTER(Heap, LeftSentinel))
        /\ mem'[brk' - WORD] = PACK(0, ALLOCATED)
        /\ (op'.ext = <<>>) => brk' = brk]_vars

\* the bytes of the four fields of the FREE block at bp: the header and footer
\* words, the prev link of one word at PREV_FREE(bp), block offset 4, and the
\* next link, a pointer of eight bytes, at NEXT_FREE(bp), block offset 8
PrevLinkBytes == WORD
NextLinkBytes == 2 * WORD
Bytes(a, n) == a .. (a + n - 1)
HeaderField(bp) == Bytes(HEADER(bp), WORD)
PrevField(bp) == Bytes(PREV_FREE(bp), PrevLinkBytes)
NextField(bp) == Bytes(NEXT_FREE(bp), NextLinkBytes)
FooterField(bp) == Bytes(FOOTER(Heap, bp), WORD)
BlockBytes(bp) == Bytes(HEADER(bp), UNPACK_SIZE(Heap, HEADER(bp)))

====
